---- MODULE Spec2Model ----
(***************************************************************************)
(* State-machine model of src/carsim_service/carsim.py: the CarSim object  *)
(* (its _connected, _registered, _shutdown flags and its _ids dictionary), *)
(* the channel's connectivity callback on_broker_connectivity_change, the  *)
(* background loop _run, the registration calls register_datapoints /      *)
(* _register and the publish call set_float_datapoint.                     *)
(*                                                                         *)
(* Execution contexts.  The callback runs on the channel's delivery thread *)
(* (grpc delivers the callbacks of one channel one after the other, so one *)
(* notification is handled at a time); _run runs on the thread started in  *)
(* __init__; set_float_datapoint runs on the caller's threads.  No lock is *)
(* taken anywhere in the source, so every read and every write of a shared *)
(* attribute is a step of its own and the steps of the threads interleave. *)
(* A blocking RPC is one step, taken when the call returns or raises.      *)
(***************************************************************************)
EXTENDS Naturals, Sequences, FiniteSets, TLC

\* ------------------------------------------------------------------ bounds
\* Number of times the broker may come back with a new generation of
\* identifiers.
MaxGen == 1

\* --------------------------------------------------------------- constants
\* The data-points register_datapoints registers, in the order of its calls.
Names == <<"Vehicle.Speed", "Vehicle.Acceleration">>

NameSet == {Names[i] : i \in 1..Len(Names)}

\* Names a caller may pass to set_float_datapoint: the configured ones and one
\* that is never registered.
PubNames == NameSet \cup {"Vehicle.Other"}

\* grpc.ChannelConnectivity
ReadyStates == {"READY", "IDLE"}

ChannelConnectivity == {"IDLE", "CONNECTING", "READY", "TRANSIENT_FAILURE", "SHUTDOWN"}

\* grpc.StatusCode values an RpcError may carry: the four the classifier names
\* and two it does not.
FatalCodes == {"UNAVAILABLE", "UNKNOWN", "UNAUTHENTICATED", "INTERNAL"}

StatusCodes == FatalCodes \cup {"DEADLINE_EXCEEDED", "NOT_FOUND"}

Threads == {"handler", "loop"}

\* The caller thread that calls set_float_datapoint.
Publishers == {"caller"}

NoId == 0

VARIABLES
    connected,      \* self._connected
    registered,     \* self._registered
    shutdown,       \* self._shutdown
    closed,         \* close() has been called: self._channel.close() was requested
    ids,            \* self._ids: a dictionary, name -> identifier
    pc,             \* position of the callback thread and of the _run thread
    pub,            \* per caller thread: the set_float_datapoint call in progress / its outcome
    brokerUp,       \* environment: the broker answers registration requests
    gen,            \* environment: generation of the identifiers the broker hands out
    lastNotif,      \* history: class of the connectivity most recently notified
    regSince,       \* history: register_datapoints returned normally since the last transition into a ready state
    fatalDue,       \* history: a registration failed with a fatal code and no sleep(3) has completed since
    loopBackoff,    \* history, for the registrations made by _run: "due" after one
                    \* failed with a fatal code, "served" once the sleep(3) that
                    \* follows has completed, "none" after one returned normally
    obtainedBy,     \* history: name -> the thread whose attempt in progress, or latest
                    \* attempt, stored ids[name] ("old": an earlier attempt, or no entry)
    ret             \* history: per thread, the identifiers the broker has returned to
                    \* its register_datapoints call in progress, in call order

vars == <<connected, registered, shutdown, closed, ids, pc, pub, brokerUp, gen,
          lastNotif, regSince, fatalDue, loopBackoff, obtainedBy, ret>>

\* ------------------------------------------------------------- classifier
\* is_grpc_fatal_error(e): True exactly for the four codes it lists.
is_grpc_fatal_error(code) ==
    \/ code = "UNAVAILABLE"
    \/ code = "UNKNOWN"
    \/ code = "UNAUTHENTICATED"
    \/ code = "INTERNAL"

\* ------------------------------------------------------------------ broker
\* response.results[name] of RegisterDatapoints: the identifier of the i-th
\* configured name in the broker's current generation.
BrokerId(g, i) == g * Len(Names) + i

AllIds == {BrokerId(g, i) : g \in 0..MaxGen, i \in 1..Len(Names)}

\* self._ids[name] = value
DictSet(d, k, v) == [n \in (DOMAIN d) \cup {k} |-> IF n = k THEN v ELSE d[n]]

\* A caller thread outside set_float_datapoint.  pc: "idle" or "rpc" (the
\* UpdateDatapoints call is pending, for the name and identifier looked up);
\* res / err: how the latest call ended ("ok", "KeyError" with the missing key,
\* "RpcError" with its status code).
IdlePub == [pc |-> "idle", name |-> "-", id |-> NoId, res |-> "none", err |-> "NONE"]

Init ==
    /\ connected = FALSE
    /\ registered = FALSE
    /\ shutdown = FALSE
    /\ ids = << >>
    /\ pc = [handler |-> "idle", loop |-> "top"]
    /\ pub = [p \in Publishers |-> IdlePub]
    /\ brokerUp = TRUE
    /\ gen = 0
    /\ lastNotif = "none"
    /\ regSince = FALSE
    /\ fatalDue = FALSE
    /\ loopBackoff = "none"
    /\ obtainedBy = [n \in NameSet |-> "old"]
    /\ closed = FALSE
    /\ ret = [t \in Threads |-> << >>]

\* A thread starts register_datapoints: what it stored in an earlier attempt
\* is no longer of its current attempt.
StartAttempt(t) == [n \in NameSet |-> IF obtainedBy[n] = t THEN "old" ELSE obtainedBy[n]]

\* Positions of a thread inside register_datapoints: before the i-th call of
\* _register (the RegisterDatapoints RPC of Names[i] is pending).
RegPcs == <<"reg1", "reg2">>

At(t, where) == pc[t] = where

Goto(t, where) == pc' = [pc EXCEPT ![t] = where]

\* ------------------------------------------------------------- environment
\* The broker stops answering registration requests.
BrokerDown ==
    /\ brokerUp
    /\ brokerUp' = FALSE
    /\ UNCHANGED <<connected, registered, shutdown, ids, pc, pub, gen,
                   lastNotif, regSince, fatalDue, loopBackoff, obtainedBy, closed, ret>>

\* The broker answers again; it may have restarted, and then it hands out a
\* new generation of identifiers.
BrokerUp ==
    /\ ~brokerUp
    /\ brokerUp' = TRUE
    /\ \/ gen' = gen
       \/ gen < MaxGen /\ gen' = gen + 1
    /\ UNCHANGED <<connected, registered, shutdown, ids, pc, pub,
                   lastNotif, regSince, fatalDue, loopBackoff, obtainedBy, closed, ret>>

\* ------------------------------------------- on_broker_connectivity_change
\* History only: whether a notified connectivity is a ready state.
NotifClass(connectivity) == IF connectivity \in ReadyStates THEN "ready" ELSE "notready"

\* Faulty variant of HandlerAfterFailure: the except clauses leave the callback, and
\* self._connected = True is reached only after a successful registration.
HandlerAfterFailure_Return == "idle"

\* Where the callback continues after its inline register_datapoints raised
\* (both except clauses fall through to self._connected = True).
HandlerAfterFailure == "setConn"

\* Faulty variant of on_broker_connectivity_change: the test of
\* self._connected is missing, so every READY / IDLE notification registers.
on_broker_connectivity_change_Always(connectivity) ==
    /\ At("handler", "idle")
    /\ lastNotif' = NotifClass(connectivity)
    /\ IF connectivity = "READY" \/ connectivity = "IDLE"
       THEN /\ Goto("handler", RegPcs[1])
            /\ obtainedBy' = StartAttempt("handler")
       ELSE /\ Goto("handler", "clrConn")
            /\ UNCHANGED obtainedBy
    /\ regSince' = IF NotifClass(connectivity) = "ready" /\ lastNotif # "ready"
                   THEN FALSE ELSE regSince
    /\ UNCHANGED <<connected, registered, shutdown, ids, pub, brokerUp, gen,
                   fatalDue, loopBackoff, closed, ret>>

\* Entry of the callback with the notified connectivity: the comparison with
\* READY / IDLE and the read of self._connected.
on_broker_connectivity_change(connectivity) ==
    /\ At("handler", "idle")
    /\ lastNotif' = NotifClass(connectivity)
    /\ IF connectivity = "READY" \/ connectivity = "IDLE"
       THEN IF ~connected
            THEN /\ Goto("handler", RegPcs[1])
                 /\ obtainedBy' = StartAttempt("handler")
            ELSE UNCHANGED <<pc, obtainedBy>>
       ELSE /\ Goto("handler", "clrConn")
            /\ UNCHANGED obtainedBy
    /\ regSince' = IF NotifClass(connectivity) = "ready" /\ lastNotif # "ready"
                   THEN FALSE ELSE regSince
    /\ UNCHANGED <<connected, registered, shutdown, ids, pub, brokerUp, gen,
                   fatalDue, loopBackoff, closed, ret>>

\* self._registered = True (after the inline registration returned)
HandlerSetRegistered ==
    /\ At("handler", "setReg")
    /\ registered' = TRUE
    /\ Goto("handler", "setConn")
    /\ UNCHANGED <<connected, shutdown, ids, pub, brokerUp, gen,
                   lastNotif, regSince, fatalDue, loopBackoff, obtainedBy, closed, ret>>

\* self._connected = True, the last statement of the ready branch
HandlerSetConnected ==
    /\ At("handler", "setConn")
    /\ connected' = TRUE
    /\ Goto("handler", "idle")
    /\ UNCHANGED <<registered, shutdown, ids, pub, brokerUp, gen,
                   lastNotif, regSince, fatalDue, loopBackoff, obtainedBy, closed, ret>>

\* self._connected = False, first write of the non-ready branch
HandlerClearConnected ==
    /\ At("handler", "clrConn")
    /\ connected' = FALSE
    /\ Goto("handler", "clrReg")
    /\ UNCHANGED <<registered, shutdown, ids, pub, brokerUp, gen,
                   lastNotif, regSince, fatalDue, loopBackoff, obtainedBy, closed, ret>>

\* self._registered = False, second write of the non-ready branch
HandlerClearRegistered ==
    /\ At("handler", "clrReg")
    /\ registered' = FALSE
    /\ Goto("handler", "idle")
    /\ UNCHANGED <<connected, shutdown, ids, pub, brokerUp, gen,
                   lastNotif, regSince, fatalDue, loopBackoff, obtainedBy, closed, ret>>

\* ----------------------------------------- register_datapoints / _register
\* Where a thread continues after the i-th _register returned.
AfterRegister(i) == IF i < Len(Names) THEN RegPcs[i + 1] ELSE "setReg"

\* _register(Names[i]) returns: the RPC answered and the identifier of the
\* response is stored in self._ids.
RegisterOk(t, i) ==
    /\ At(t, RegPcs[i])
    /\ brokerUp
    /\ ids' = DictSet(ids, Names[i], BrokerId(gen, i))
    /\ Goto(t, AfterRegister(i))
    /\ obtainedBy' = [obtainedBy EXCEPT ![Names[i]] = t]
    /\ regSince' = IF i = Len(Names) THEN TRUE ELSE regSince
    /\ loopBackoff' = IF t = "loop" /\ i = Len(Names) THEN "none" ELSE loopBackoff
    /\ ret' = [ret EXCEPT ![t] = IF i = Len(Names) THEN << >>
                                 ELSE Append(@, BrokerId(gen, i))]
    /\ UNCHANGED <<connected, registered, shutdown, pub, brokerUp, gen,
                   lastNotif, fatalDue, closed>>

\* Faulty variant of LoopAfterFailure: every failure is followed by time.sleep(1).
LoopAfterFailure_ShortSleep(err) == "sleep1"

\* Faulty variant of LoopAfterFailure: there is no "except Exception" clause,
\* so an exception that is no grpc.RpcError ends the thread.
LoopAfterFailure_Crash(err) == IF err \in StatusCodes THEN "sleep3" ELSE "done"

\* Where _run continues after register_datapoints raised: time.sleep(3) after
\* a grpc.RpcError, time.sleep(1) after any other exception.
LoopAfterFailure(err) == IF err \in StatusCodes THEN "sleep3" ELSE "sleep1"

\* Faulty variant of RegisterFail: the caller's except clause stores the
\* negated classification in self._connected, so that a fatal code disconnects.
RegisterFail_Disconnect(t, i, err) ==
    /\ At(t, RegPcs[i])
    /\ ~brokerUp
    /\ Goto(t, IF t = "handler" THEN "setConn"
               ELSE IF err \in StatusCodes THEN "sleep3" ELSE "sleep1")
    /\ connected' = IF err \in StatusCodes /\ is_grpc_fatal_error(err) THEN FALSE ELSE connected
    /\ fatalDue' = (fatalDue \/ (err \in StatusCodes /\ is_grpc_fatal_error(err)))
    /\ loopBackoff' = IF t = "loop" /\ err \in StatusCodes /\ is_grpc_fatal_error(err)
                      THEN "due" ELSE loopBackoff
    /\ ret' = [ret EXCEPT ![t] = << >>]
    /\ UNCHANGED <<registered, shutdown, ids, pub, brokerUp, gen,
                   lastNotif, regSince, obtainedBy, closed>>

\* _register(Names[i]) raises: a grpc.RpcError with code err, or another
\* exception (err = "Exception").  Nothing is stored; the exception leaves
\* register_datapoints and reaches the caller's except clause.
RegisterFail(t, i, err) ==
    /\ At(t, RegPcs[i])
    /\ ~brokerUp
    /\ Goto(t, IF t = "handler" THEN HandlerAfterFailure ELSE LoopAfterFailure(err))
    /\ fatalDue' = (fatalDue \/ (err \in StatusCodes /\ is_grpc_fatal_error(err)))
    /\ loopBackoff' = IF t = "loop" /\ err \in StatusCodes /\ is_grpc_fatal_error(err)
                      THEN "due" ELSE loopBackoff
    /\ ret' = [ret EXCEPT ![t] = << >>]
    /\ UNCHANGED <<connected, registered, shutdown, ids, pub, brokerUp, gen,
                   lastNotif, regSince, obtainedBy, closed>>

\* -------------------------------------------------------------------- _run
\* while self._shutdown is False (no statement of the source assigns
\* self._shutdown after __init__, so the loop is never left)
LoopTop ==
    /\ At("loop", "top")
    /\ Goto("loop", IF shutdown = FALSE THEN "chkConn" ELSE "done")
    /\ UNCHANGED <<connected, registered, shutdown, ids, pub, brokerUp, gen,
                   lastNotif, regSince, fatalDue, loopBackoff, obtainedBy, closed, ret>>

\* if not self._connected
LoopCheckConnected ==
    /\ At("loop", "chkConn")
    /\ Goto("loop", IF ~connected THEN "sleep02" ELSE "chkReg")
    /\ UNCHANGED <<connected, registered, shutdown, ids, pub, brokerUp, gen,
                   lastNotif, regSince, fatalDue, loopBackoff, obtainedBy, closed, ret>>

\* elif not self._registered: register_datapoints() is entered; else sleep(1)
LoopCheckRegistered ==
    /\ At("loop", "chkReg")
    /\ IF ~registered
       THEN /\ Goto("loop", RegPcs[1])
            /\ obtainedBy' = StartAttempt("loop")
       ELSE /\ Goto("loop", "sleep1")
            /\ UNCHANGED obtainedBy
    /\ UNCHANGED <<connected, registered, shutdown, ids, pub, brokerUp, gen,
                   lastNotif, regSince, fatalDue, loopBackoff, closed, ret>>

\* self._registered = True (after register_datapoints returned)
LoopSetRegistered ==
    /\ At("loop", "setReg")
    /\ registered' = TRUE
    /\ Goto("loop", "top")
    /\ UNCHANGED <<connected, shutdown, ids, pub, brokerUp, gen,
                   lastNotif, regSince, fatalDue, loopBackoff, obtainedBy, closed, ret>>

\* time.sleep(0.2) / time.sleep(1) return
LoopSleepShort ==
    /\ At("loop", "sleep02") \/ At("loop", "sleep1")
    /\ Goto("loop", "top")
    /\ UNCHANGED <<connected, registered, shutdown, ids, pub, brokerUp, gen,
                   lastNotif, regSince, fatalDue, loopBackoff, obtainedBy, closed, ret>>

\* time.sleep(3) returns: the back-off after an RpcError has elapsed
LoopSleepBackoff ==
    /\ At("loop", "sleep3")
    /\ Goto("loop", "top")
    /\ fatalDue' = FALSE
    /\ loopBackoff' = IF loopBackoff = "due" THEN "served" ELSE loopBackoff
    /\ UNCHANGED <<connected, registered, shutdown, ids, pub, brokerUp, gen,
                   lastNotif, regSince, obtainedBy, closed, ret>>

\* ----------------------------------------------------- set_float_datapoint
\* Faulty variant of PublishLookup: the lookup falls back to a default identifier
\* (self._ids.get(name, 0)) and the update call is issued for it.
PublishLookup_Default(p, name) ==
    /\ pub[p].pc = "idle"
    /\ pub' = [pub EXCEPT ![p] = [pc |-> "rpc", name |-> name,
                                  id |-> IF name \in DOMAIN ids THEN ids[name] ELSE NoId,
                                  res |-> "none", err |-> "NONE"]]
    /\ UNCHANGED <<connected, registered, shutdown, ids, pc, brokerUp, gen,
                   lastNotif, regSince, fatalDue, loopBackoff, obtainedBy, closed, ret>>

\* _id = self._ids[name]: a missing key raises KeyError before the try block.
PublishLookup(p, name) ==
    /\ pub[p].pc = "idle"
    /\ IF name \in DOMAIN ids
       THEN pub' = [pub EXCEPT ![p] = [pc |-> "rpc", name |-> name, id |-> ids[name],
                                       res |-> "none", err |-> "NONE"]]
       ELSE pub' = [pub EXCEPT ![p] = [pc |-> "idle", name |-> "-", id |-> NoId,
                                       res |-> "KeyError", err |-> name]]
    /\ UNCHANGED <<connected, registered, shutdown, ids, pc, brokerUp, gen,
                   lastNotif, regSince, fatalDue, loopBackoff, obtainedBy, closed, ret>>

\* Faulty variant of PublishOk: a successful update marks the connection as
\* connected.
PublishOk_Connects(p) ==
    /\ pub[p].pc = "rpc"
    /\ connected' = TRUE
    /\ pub' = [pub EXCEPT ![p] = [@ EXCEPT !.pc = "idle", !.name = "-", !.id = NoId,
                                            !.res = "ok"]]
    /\ UNCHANGED <<registered, shutdown, ids, pc, brokerUp, gen,
                   lastNotif, regSince, fatalDue, loopBackoff, obtainedBy, closed, ret>>

\* UpdateDatapoints returns normally
PublishOk(p) ==
    /\ pub[p].pc = "rpc"
    /\ pub' = [pub EXCEPT ![p] = [@ EXCEPT !.pc = "idle", !.name = "-", !.id = NoId,
                                            !.res = "ok"]]
    /\ UNCHANGED <<connected, registered, shutdown, ids, pc, brokerUp, gen,
                   lastNotif, regSince, fatalDue, loopBackoff, obtainedBy, closed, ret>>

\* The value the except clause stores in self._connected.
PublishConnected(err) == is_grpc_fatal_error(err)

\* UpdateDatapoints raises grpc.RpcError with code err: the except clause
\* assigns self._connected and re-raises.
PublishFail(p, err) ==
    /\ pub[p].pc = "rpc"
    /\ connected' = PublishConnected(err)
    /\ pub' = [pub EXCEPT ![p] = [@ EXCEPT !.pc = "idle", !.name = "-", !.id = NoId,
                                            !.res = "RpcError", !.err = err]]
    /\ UNCHANGED <<registered, shutdown, ids, pc, brokerUp, gen,
                   lastNotif, regSince, fatalDue, loopBackoff, obtainedBy, closed, ret>>

\* ------------------------------------------------------- close / __exit__
\* close(): self._channel.close() is requested.  No attribute of the CarSim
\* object is assigned: self._shutdown keeps its value.
Close ==
    /\ ~closed
    /\ closed' = TRUE
    /\ UNCHANGED <<connected, registered, shutdown, ids, pc, pub, brokerUp, gen,
                   lastNotif, regSince, fatalDue, loopBackoff, obtainedBy, ret>>

\* ----------------------------------------------------------- specification
Handler ==
    \/ HandlerSetRegistered
    \/ HandlerSetConnected
    \/ HandlerClearConnected
    \/ HandlerClearRegistered
    \/ \E i \in 1..Len(Names) : RegisterOk("handler", i)
    \/ \E i \in 1..Len(Names), err \in StatusCodes \cup {"Exception"} :
           RegisterFail("handler", i, err)

Loop ==
    \/ LoopTop
    \/ LoopCheckConnected
    \/ LoopCheckRegistered
    \/ LoopSetRegistered
    \/ LoopSleepShort
    \/ LoopSleepBackoff
    \/ \E i \in 1..Len(Names) : RegisterOk("loop", i)
    \/ \E i \in 1..Len(Names), err \in StatusCodes \cup {"Exception"} :
           RegisterFail("loop", i, err)

Notify == \E c \in ChannelConnectivity : on_broker_connectivity_change(c)

Publish ==
    \/ \E p \in Publishers, name \in PubNames : PublishLookup(p, name)
    \/ \E p \in Publishers : PublishOk(p)
    \/ \E p \in Publishers, err \in StatusCodes : PublishFail(p, err)

Broker == BrokerDown \/ BrokerUp

Next == Notify \/ Handler \/ Loop \/ Publish \/ Broker

\* The running system.  close() assigns nothing the other operations read,
\* so it is left to LifecycleSpec.
Spec == Init /\ [][Next]_vars

\* The running system together with the shutdown request.
NextLifecycle == Next \/ Close

LifecycleSpec == Init /\ [][NextLifecycle]_vars

\* ------------------------------------------------------------------- types
HandlerPcs == {"idle", "reg1", "reg2", "setReg", "setConn", "clrConn", "clrReg"}

LoopPcs == {"top", "chkConn", "chkReg", "reg1", "reg2", "setReg",
            "sleep02", "sleep1", "sleep3", "done"}

TypeOK ==
    /\ connected \in BOOLEAN /\ registered \in BOOLEAN /\ shutdown \in BOOLEAN
    /\ DOMAIN ids \subseteq NameSet
    /\ \A n \in DOMAIN ids : ids[n] \in AllIds
    /\ pc.handler \in HandlerPcs /\ pc.loop \in LoopPcs
    /\ \A p \in Publishers :
          /\ pub[p].pc \in {"idle", "rpc"}
          /\ pub[p].res \in {"none", "ok", "KeyError", "RpcError"}
          /\ pub[p].id \in AllIds \cup {NoId}
    /\ brokerUp \in BOOLEAN /\ gen \in 0..MaxGen
    /\ lastNotif \in {"none", "ready", "notready"}
    /\ regSince \in BOOLEAN /\ fatalDue \in BOOLEAN
    /\ loopBackoff \in {"none", "due", "served"}
    /\ \A n \in NameSet : obtainedBy[n] \in Threads \cup {"old"}
    /\ closed \in BOOLEAN
    /\ \A t \in Threads : ret[t] \in Seq(AllIds) /\ Len(ret[t]) < Len(Names)

\* ------------------------------------------------------------------ claims
\* A step of caller thread p that begins a set_float_datapoint call.
PublishBegins(p) == pub[p].pc = "idle" /\ pub'[p] # pub[p]

\* A step in which the UpdateDatapoints call of p raises an RpcError and
\* set_float_datapoint returns by re-raising it.
PublishRaises(p) == pub[p].pc = "rpc" /\ pub'[p].pc = "idle" /\ pub'[p].res = "RpcError"

\* C1: whenever no notification is being handled, registered is true only if
\* the most recent connectivity notification was READY or IDLE and a
\* registration attempt has returned successfully since the most recent
\* transition into a ready state.
C1_RegisteredOnlyWhenReady ==
    (At("handler", "idle") /\ registered) => (lastNotif = "ready" /\ regSince)

\* C2: every publish that begins after the handler has processed a non-ready
\* notification, and before the next READY / IDLE notification, starts in a
\* state where connected and registered are both false.
C2_PublishAfterDisconnect ==
    [][\A p \in Publishers :
          (PublishBegins(p) /\ lastNotif = "notready" /\ At("handler", "idle"))
              => (~connected /\ ~registered)]_vars

\* C3: when the update call of a publish fails with a fatal code, connected
\* is false when the publish returns (and the failure is re-raised).
C3_FatalPublishDisconnects ==
    [][\A p \in Publishers :
          (PublishRaises(p) /\ pub'[p].err \in FatalCodes) => ~connected']_vars

\* C4: when the update call of a publish fails with a non-fatal code, the
\* failure is re-raised and connected, registered and the mapping have the
\* same values after the call as before it.
C4_RetryablePublishChangesNothing ==
    [][\A p \in Publishers :
          (PublishRaises(p) /\ pub'[p].err \notin FatalCodes)
              => UNCHANGED <<connected, registered, ids>>]_vars

\* C5: no publish step changes connected from false to true; the only step
\* that sets connected to true is the connectivity handler's.
C5_OnlyHandlerConnects ==
    [][(~connected /\ connected') => (pub' = pub /\ At("handler", "setConn"))]_vars

\* Names whose entry in the mapping was stored by thread t's attempt in
\* progress (or by its latest attempt, when none is in progress).
Got(t) == {n \in DOMAIN ids : obtainedBy[n] = t}

InAttempt(t) == pc[t] \in {RegPcs[i] : i \in 1..Len(Names)}

\* A step in which register_datapoints of thread t raises.
AttemptFails(t) == InAttempt(t) /\ pc'[t] # pc[t] /\ ~InAttempt(t)' /\ pc'[t] # "setReg"

\* C6: registration is all-or-nothing: when an attempt fails the mapping holds
\* no identifier obtained by it, and while an attempt is in progress the
\* mapping never holds identifiers of that attempt for some configured names
\* but not for all of them.
C6_RegistrationAllOrNothing ==
    [][\A t \in Threads :
          /\ AttemptFails(t) => Got(t)' = {}
          /\ InAttempt(t)' => Got(t)' \in {{}, NameSet}]_vars

\* C7: when the handler has processed a non-ready notification the mapping
\* is empty.
C7_DisconnectClearsMapping ==
    [][(At("handler", "clrReg") /\ At("handler", "idle")') => ids' = << >>]_vars

\* C8: a publish for a name without an identifier in the mapping raises the
\* lookup error at once: the call ends in its first step with KeyError for
\* that name, no update call is issued (an update call is pending only for a
\* name found in the mapping, with the identifier found), and connected and
\* registered are unchanged.
C8_UnknownNameFailsFast ==
    [][\A p \in Publishers :
          PublishBegins(p) =>
              /\ UNCHANGED <<connected, registered>>
              /\ \/ /\ pub'[p].pc = "rpc"
                    /\ pub'[p].name \in DOMAIN ids
                    /\ pub'[p].id = ids[pub'[p].name]
                 \/ /\ pub'[p].pc = "idle"
                    /\ pub'[p].res = "KeyError"
                    /\ pub'[p].err \in PubNames \ DOMAIN ids]_vars

\* C8 witness: a publish for a configured name made before any registration
\* stored its identifier has ended with KeyError.
C8_Witness ==
    \E p \in Publishers :
        /\ pub[p].pc = "idle" /\ pub[p].res = "KeyError"
        /\ pub[p].err = Names[1] /\ Names[1] \notin DOMAIN ids /\ ~registered

\* The supervisor alone: notifications, the callback, _run and the broker,
\* with no caller publishing.  The callback thread and the _run thread are
\* scheduled fairly; notifications and the broker are the environment's.
NextSupervisor == Notify \/ Handler \/ Loop \/ Broker

LiveSpec == Init /\ [][NextSupervisor]_vars /\ WF_vars(Handler) /\ WF_vars(Loop)

AttemptStarts(t) == ~InAttempt(t) /\ InAttempt(t)'

\* C10 as stated: no registration attempt, by the loop or by the callback,
\* starts after a registration failed with a fatal code and before a
\* sleep(3) has elapsed.
C10_BackoffBeforeAnyAttempt ==
    [][\A t \in Threads : AttemptStarts(t) => ~fatalDue]_vars

\* C10 amended: no registration attempt of the loop starts after a
\* registration of the loop failed with a fatal code and before the loop's
\* sleep(3) has elapsed.
C10_BackoffBeforeLoopAttempt ==
    [][AttemptStarts("loop") => loopBackoff # "due"]_vars

\* C10 witness: the loop is in a registration attempt that follows a fatal
\* failure of its previous attempt and the sleep(3) after it.
C10_Witness == At("loop", RegPcs[1]) /\ loopBackoff = "served"

\* A step in which thread t issues a RegisterDatapoints call: it enters
\* register_datapoints or goes on to its next _register.
IssuesRegister(t) == pc'[t] # pc[t] /\ InAttempt(t)'

\* C11: once registered has become true, no registration call is issued by
\* the loop or by the handler until a non-ready notification has been
\* processed.  (registered is cleared only by the last statement of the
\* handler's non-ready branch, so "registered has become true and no
\* non-ready notification has been processed since" is registered = TRUE.)
C11_RegisteredOncePerConnection ==
    [][\A t \in Threads : registered => ~IssuesRegister(t)]_vars

\* C12: after the shutdown request the shutdown flag is set (so that the loop
\* leaves its while-loop), and once shut down connected, registered and the
\* mapping are not modified.
C12_ShutdownStopsLoop ==
    [][closed' => /\ shutdown'
                  /\ closed => UNCHANGED <<connected, registered, ids>>]_vars

\* A step in which register_datapoints of thread t returns normally.
AttemptCompletes(t) == At(t, RegPcs[Len(Names)]) /\ pc'[t] = "setReg"

\* C13: when a registration attempt completes successfully the mapping holds,
\* for every configured name, the identifier the broker returned in that
\* attempt; a publish issues one update call carrying the identifier the
\* mapping holds for its name, and the call's return ends the publish.
C13_MappingIsLatestRegistration ==
    [][/\ \A t \in Threads :
             AttemptCompletes(t) =>
                 \A i \in 1..Len(ret[t]) : ids'[Names[i]] = ret[t][i]
       /\ \A p \in Publishers :
             /\ (PublishBegins(p) /\ pub'[p].pc = "rpc")
                    => pub'[p].id = ids[pub'[p].name]
             /\ (pub[p].pc = "rpc" /\ pub'[p] # pub[p]) => pub'[p].pc = "idle"]_vars

\* C14: the loop is the recovery boundary: while shutdown is not set it never
\* leaves the while-loop, and after a registration attempt of the loop raised
\* (RpcError, fatal or not, or any other exception) it goes to a sleep and on
\* to its next iteration; a publish whose update call returned or raised ends
\* at once (one update call, no retry), the failure surfaced as RpcError.
C14_LoopSurvivesFailures ==
    [][/\ shutdown' = FALSE => pc'.loop \in LoopPcs \ {"done"}
       /\ AttemptFails("loop") => pc'.loop \in {"sleep1", "sleep3"}
       /\ \A p \in Publishers :
             (pub[p].pc = "rpc" /\ pub'[p] # pub[p])
                 => /\ pub'[p].pc = "idle"
                    /\ pub'[p].res \in {"ok", "RpcError"}
                    /\ pub'[p].res = "RpcError" => pub'[p].err \in StatusCodes]_vars

\* C14 witness: the loop is in a new iteration after a registration attempt of
\* its own failed with a fatal code and the back-off elapsed.
C14_Witness == At("loop", "chkConn") /\ loopBackoff = "served" /\ ~registered

\* C15: registered = true implies connected = true in every reachable state.
C15_RegisteredImpliesConnected == registered => connected

\* A step in which a registration attempt of the loop fails with a fatal code.
LoopFatalFailure == AttemptFails("loop") /\ loopBackoff' = "due"

ReadyNotified ==
    /\ At("handler", "idle") /\ lastNotif' = "ready"
    /\ (lastNotif # "ready" \/ pc'.handler # pc.handler)

\* C18: a READY / IDLE notification received while connected is true issues
\* no registration call and leaves connected, registered and the mapping
\* unchanged.
C18_ReadyWhileConnectedIsNoOp ==
    [][(ReadyNotified /\ connected) =>
          /\ pc'.handler = "idle"
          /\ UNCHANGED <<connected, registered, ids>>]_vars

\* C18 witness: the handler's latest registration attempt obtained every name
\* and no attempt has completed since the connectivity last became READY /
\* IDLE: that notification found connected true (set by a publish failure
\* after the not-ready notification), started no attempt and left connected
\* true and registered false.
C18_Witness ==
    /\ At("handler", "idle") /\ lastNotif = "ready" /\ connected /\ ~registered
    /\ ~regSince /\ \A n \in NameSet : obtainedBy[n] = "handler"

\* C19: at most one registration attempt is in flight at any time.
C19_OneAttemptInFlight == ~(InAttempt("handler") /\ InAttempt("loop"))

\* C20: no publish step modifies registered or the mapping, and a publish
\* whose update call succeeds leaves connected unchanged.
C20_PublishFrame ==
    [][\A p \in Publishers :
          pub'[p] # pub[p] =>
              /\ UNCHANGED <<registered, ids>>
              /\ pub'[p].res \in {"ok", "KeyError", "none"} => connected' = connected]_vars

\* C20 witness: a publish has succeeded while connected was false and
\* registered true, and both are as they were.
C20_Witness ==
    \E p \in Publishers :
        /\ pub[p].pc = "idle" /\ pub[p].res = "ok"
        /\ ~connected /\ registered /\ DOMAIN ids = NameSet

====
